---- MODULE Spec2Model ----
(***************************************************************************)
(* State-machine model of AnalysisService and AnalysisController           *)
(* (src/src/analysis/analysis.service.ts, analysis.controller.ts).         *)
(*                                                                         *)
(* Node.js runs one callback at a time and drains the promise microtask    *)
(* queue before the next I/O callback, so an action of this model is one   *)
(* I/O event (an external call settling, a timer firing, an HTTP request   *)
(* arriving) together with every continuation of the service that the      *)
(* event makes runnable.                                                   *)
(*                                                                         *)
(* Strings the code inspects character by character (transcript text) are  *)
(* sequences of UTF-16 code units; a probability literal is kept in        *)
(* hundredths (80 stands for 0.8) and computed with as the double it       *)
(* denotes.  createdAt is never read by the service and is left out of the *)
(* job record.                                                             *)
(***************************************************************************)
EXTENDS Integers, Sequences, FiniteSets, TLC

\* ------------------------------------------------------------------ bounds
MaxJobs == 2
MaxQueries == 1

Ids == 1..MaxJobs
UnknownId == 0
Queries == 1..MaxQueries

\* ------------------------------------------------------- program constants
MinTextLength == 50
ProbAI == 80
ProbHuman == 20
ProbNeutral == 50
AiThreshold == 70
MixedThreshold == 50
HumanThreshold == 30
HighShare == 80

ShotFailed == "https://via.placeholder.com/1280x720/ff4444/ffffff?text=Screenshot+Failed"
UploadFailed == "https://via.placeholder.com/1280x720/ff4444/ffffff?text=Upload+Failed"
Placeholders == {ShotFailed, UploadFailed}
HostedUrl == "https://i.ibb.co/shot.png"

\* An optional value (undefined / absent field) is the empty sequence, a
\* present one the one-element sequence.
Undefined == <<>>
Some(x) == <<x>>

\* ------------------------------------------------------------- hashString
\* hash = ((hash << 5) - hash + charCode) & 0xffffffff on 32-bit integers:
\* the running hash is kept as two 16-bit halves <<hi, lo>> of its two's
\* complement bits, so that no intermediate value leaves 32 bits.
HashStep(h, c) ==
  LET t == h[2] * 31 + c
      lo == t % 65536
      carry == t \div 65536
      hi == (h[1] * 31 + carry) % 65536
  IN <<hi, lo>>

\* The loop over the code units a..b of text, entered with hash h.  The range
\* is walked in two halves, the hash after the first half being computed
\* before the second half starts, which keeps the evaluation shallow; the
\* steps and their order are those of the for loop.
RECURSIVE HashRange(_, _, _, _)
HashRange(text, a, b, h) ==
  IF a > b THEN h
  ELSE IF a = b THEN HashStep(h, text[a])
  ELSE LET m == (a + b) \div 2
       IN CHOOSE r \in {HashRange(text, m + 1, b, left) :
                          left \in {HashRange(text, a, m, h)}} : TRUE

HashBits(text) == HashRange(text, 1, Len(text), <<0, 0>>)

\* The signed 32-bit value of the bits (the result of & in JavaScript).
ToInt32(h) ==
  IF h[1] >= 32768 THEN (h[1] - 65536) * 65536 + h[2] ELSE h[1] * 65536 + h[2]

\* Number.prototype.toString(36): digits 0-9 then a-z, "-" before a negative
\* number, as code units.
DigitChar(d) == IF d < 10 THEN 48 + d ELSE 87 + d

RECURSIVE NegDigits(_)
NegDigits(n) ==
  IF n = 0 THEN <<>>
  ELSE LET r == (36 - (n % 36)) % 36
       IN Append(NegDigits((n + r) \div 36), DigitChar(r))

RECURSIVE PosDigits(_)
PosDigits(n) ==
  IF n = 0 THEN <<>> ELSE Append(PosDigits(n \div 36), DigitChar(n % 36))

ToString36(n) ==
  IF n = 0 THEN <<48>>
  ELSE IF n < 0 THEN <<45>> \o NegDigits(n)
  ELSE PosDigits(n)

hashString(text) == ToString36(ToInt32(HashBits(text)))

\* ------------------------------------------------------- analyzeTranscript
\* a || b on strings and numbers: the first operand unless it is falsy
\* (undefined, '' or 0).
OrStr(a, b) == IF a # <<>> THEN a ELSE b
OrNum(a, b) == IF a # 0 THEN a ELSE b

\* transcript.words || transcript.segments || [] : an empty array is truthy.
WordsOf(transcript) ==
  IF transcript.words # Undefined THEN transcript.words[1]
  ELSE IF transcript.segments # Undefined THEN transcript.segments[1]
  ELSE <<>>

UnitText(w) == OrStr(w.word, OrStr(w.text, <<>>))

\* words.map(...).join(' ')
RECURSIVE JoinFrom(_, _)
JoinFrom(words, i) ==
  IF i > Len(words) THEN <<>>
  ELSE IF i = Len(words) THEN UnitText(words[i])
  ELSE UnitText(words[i]) \o <<32>> \o JoinFrom(words, i + 1)

JoinText(words) == JoinFrom(words, 1)

\* analyzeTranscript giving the probability to the first segment only.
MakeSegments_FirstOnly(words, aiProbability) ==
  [i \in 1..Len(words) |->
     [text |-> UnitText(words[i]),
      start_time |-> OrNum(words[i].start_time, OrNum(words[i].start, 0)),
      end_time |-> OrNum(words[i].end_time, OrNum(words[i].end, 0)),
      speaker |-> IF words[i].speaker # "" THEN words[i].speaker ELSE "null",
      ai_probability |-> IF i = 1 THEN aiProbability ELSE ProbNeutral]]

MakeSegments(words, aiProbability) ==
  [i \in 1..Len(words) |->
     [text |-> UnitText(words[i]),
      start_time |-> OrNum(words[i].start_time, OrNum(words[i].start, 0)),
      end_time |-> OrNum(words[i].end_time, OrNum(words[i].end, 0)),
      speaker |-> IF words[i].speaker # "" THEN words[i].speaker ELSE "null",
      ai_probability |-> aiProbability]]

\* ------------------------------------------------------ number (binary64)
\* A JavaScript number that is zero or lies in [2^-4, 2^10) is a whole number
\* of units of 2^-56, kept in three limbs <<a, b, c>> worth
\* a * 2^40 + b * 2^20 + c units.  Every operation computes the exact result
\* and rounds it to 53 significant bits, ties to even, as IEEE 754 does.
Limb == 1048576
One == 65536

\* Each operation takes its operands by value, as JavaScript does: they are
\* evaluated once, into x, before the operation is carried out.
Carry(v) ==
  CHOOSE r \in
    { LET b == x[2] + x[3] \div Limb
      IN <<x[1] + b \div Limb, b % Limb, x[3] % Limb>> : x \in {v} } : TRUE

\* The least power of two above q.
RECURSIVE Above(_)
Above(q) == IF q = 0 THEN 1 ELSE 2 * Above(q \div 2)

\* The exact value v + rem / total units (0 <= rem < total), rounded, v being
\* <<a, b, c>>.  The top limb holds the bits from 2^40 on: 13 of them are
\* among the 53 leading bits of the value, so the bits to round away are worth
\* less than D = Above(a \div 2^13) units.
RoundEven(v, rem, total) ==
  CHOOSE r \in
    { LET D == Above(x[1][1] \div 8192)
          low == x[1][3] % D
          num == low * x[3] + x[2]
          den == D * x[3]
          odd == (x[1][3] \div D) % 2 = 1
          up == 2 * num > den \/ (2 * num = den /\ odd)
      IN Carry(<<x[1][1], x[1][2], x[1][3] - low + (IF up THEN D ELSE 0)>>)
      : x \in {<<v, rem, total>>} } : TRUE

\* v + w, n * v and v / n (n a positive integer below 2048).
Plus(v, w) ==
  CHOOSE r \in
    { RoundEven(Carry(<<x[1][1] + x[2][1], x[1][2] + x[2][2], x[1][3] + x[2][3]>>),
                0, 1) : x \in {<<v, w>>} } : TRUE

Times(n, v) ==
  CHOOSE r \in
    { RoundEven(Carry(<<x[1] * x[2][1], x[1] * x[2][2], x[1] * x[2][3]>>), 0, 1)
      : x \in {<<n, v>>} } : TRUE

Over(v, n) ==
  CHOOSE r \in
    { LET r1 == x[1][1] % x[2]
          t2 == r1 * Limb + x[1][2]
          t3 == (t2 % x[2]) * Limb + x[1][3]
      IN RoundEven(<<x[1][1] \div x[2], t2 \div x[2], t3 \div x[2]>>,
                   t3 % x[2], x[2]) : x \in {<<v, n>>} } : TRUE

Geq(x, y) ==
  \/ x[1] > y[1]
  \/ x[1] = y[1] /\ x[2] > y[2]
  \/ x[1] = y[1] /\ x[2] = y[2] /\ x[3] >= y[3]

Gt_OrEqual(x, y) == Geq(x, y)

Gt(x, y) == ~Geq(y, x)

\* The number an integer is, and the one a literal of h hundredths (0.7 is
\* 70) denotes: the double nearest to h / 100, tabulated for the literals
\* in range.
FromInt(n) == <<n * One, 0, 0>>
Literals == {0} \cup 7..100
DoubleOf == <<>> @@ [h \in Literals |-> Over(FromInt(h), 100)]
Double(h) == DoubleOf[h]

\* ------------------------------------------------ calculateOverallAnalysis
\* segments.reduce((sum, s) => sum + s.ai_probability, 0) over the first i
\* segments: a left fold, each addition rounded.
RECURSIVE SumProb(_, _)
SumProb(segments, i) ==
  IF i = 0 THEN FromInt(0)
  ELSE Plus(SumProb(segments, i - 1), Double(segments[i].ai_probability))

calculateOverallAnalysis(segments) ==
  LET n == Len(segments)
      avgProb == Over(SumProb(segments, n), IF n # 0 THEN n ELSE 1)
      aiCount == Cardinality({i \in 1..n :
                    Geq(Double(segments[i].ai_probability), Double(AiThreshold))})
      humanCount == Cardinality({i \in 1..n :
                       Geq(Double(HumanThreshold), Double(segments[i].ai_probability))})
      share == Times(n, Double(HighShare))
  IN [overall_ai_probability |-> avgProb,
      overall_prediction |->
        IF Geq(avgProb, Double(AiThreshold)) THEN "AI-Generated Content"
        ELSE IF Geq(avgProb, Double(MixedThreshold)) THEN "Mixed Content"
        ELSE "Human-Generated Content",
      confidence_level |->
        IF Gt(FromInt(aiCount), share) \/ Gt(FromInt(humanCount), share)
        THEN "high" ELSE "medium",
      decision_rationale |-> <<aiCount, " AI-like, ", humanCount, " human-like segments">>,
      perplexity_metrics |->
        [overall_perplexity |-> 0, average_perplexity |-> 0, burstiness |-> 0],
      sentence_stats |->
        [total_sentences |-> n,
         ai_sentences |-> aiCount,
         human_sentences |-> humanCount,
         neutral_sentences |-> n - aiCount - humanCount,
         average_sentence_ai_probability |-> avgProb]]

\* ------------------------------------------------------------------ inputs
ValidUrl == "https://www.youtube.com/watch?v=dQw4w9WgXcQ"
Urls == {ValidUrl, "https://example.com/watch?v=dQw4w9WgXcQ", "not a url"}

\* ytdl.validateURL, a library predicate: the YouTube watch URLs.
validateURL(url) == url = ValidUrl

Rep(c, n) == [i \in 1..n |-> c]

WordUnit(w, s, e, spk) ==
  [word |-> w, text |-> <<>>, start_time |-> s, start |-> 0,
   end_time |-> e, end |-> 0, speaker |-> spk]

SegmentUnit(t, s, e) ==
  [word |-> <<>>, text |-> t, start_time |-> 0, start |-> s,
   end_time |-> 0, end |-> e, speaker |-> ""]

\* The responses speechToText.convert can resolve with: no units at all, an
\* empty words array beside a segment, a short text, texts of 49 and of 50
\* code units once joined, and a second 50-unit text: the short one after 45
\* NUL characters, which hashString cannot tell from the short one (the hash
\* stays 0 over leading NULs).
TranscriptPool ==
  << [words |-> Undefined, segments |-> Undefined],
     [words |-> Some(<<>>), segments |-> Some(<<SegmentUnit(Rep(97, 60), 0, 4)>>)],
     [words |-> Some(<<WordUnit(<<104, 105>>, 0, 1, "speaker_0"),
                       WordUnit(<<121, 111>>, 1, 2, "")>>),
      segments |-> Undefined],
     [words |-> Undefined,
      segments |-> Some(<<SegmentUnit(Rep(97, 24), 0, 3), SegmentUnit(Rep(98, 24), 3, 6)>>)],
     [words |-> Some(<<WordUnit(Rep(97, 24), 0, 3, "speaker_0"),
                       WordUnit(Rep(98, 25), 3, 6, "speaker_1")>>),
      segments |-> Undefined],
     [words |-> Some(<<WordUnit(Rep(0, 45) \o <<104, 105, 32, 121, 111>>, 0, 2, "")>>),
      segments |-> Undefined] >>

Transcripts == 1..Len(TranscriptPool)
NoTranscript == 0

\* analyzeTranscript's `words` and `text` for each transcript of the pool, and
\* the hash getAIProbability computes from the text (each tabulated once:
\* @@ yields the table itself, not the rule that computes it).
Units == <<>> @@ [t \in Transcripts |-> WordsOf(TranscriptPool[t])]
Text == <<>> @@ [t \in Transcripts |-> JoinText(Units[t])]
Hash == <<>> @@ [t \in Transcripts |-> hashString(Text[t])]

\* What the classification endpoint can answer: label 0, another label, a
\* body whose data.output carries no label, a body without data.output, an
\* HTTP or network error, no answer in time.
ClassifyReplies == {"label0", "label1", "nolabel", "malformed", "error", "timeout"}

AudioErrors == {"ffmpeg exited with code 1", "Input stream error: Video unavailable"}
ReadErrors == {"ENOENT: no such file or directory"}
ConvertErrors == {"Status code: 401"}

\* ------------------------------------------------------------------- state
VARIABLES
  results,     \* Map id -> AnalysisResultDto
  cache,       \* Map hash -> probability
  pc,          \* processVideo's position for each id
  thumb,       \* captureScreenshot's position for each id
  shot,        \* the value captureScreenshot is going to return
  audio,       \* extractAudio's promise: running, ended or failed
  artifact,    \* the temporary wav file of each id
  tr,          \* the transcript convert resolved with (index in the pool)
  failedAt,    \* the call whose rejection reached processVideo's catch
  hist,        \* ids in the order their getAIProbability call returned
  startedAt,   \* Len(hist) when the id's getAIProbability call began
  invoked,     \* whether the id's call posted to the classification endpoint
  ret,         \* the probability the id's getAIProbability call returned
  query,       \* the HTTP queries being served
  submitReply, \* the response to the last POST /analyze
  scored,      \* a segment list handed to calculateOverallAnalysis on its own
  verdict,     \* what calculateOverallAnalysis returned for it
  answer,      \* how the id's classification post ended (Outcome)
  posted       \* the sentence of the id's classification post

vars == <<results, cache, pc, thumb, shot, audio, artifact, tr, failedAt,
          hist, startedAt, invoked, ret, query, submitReply, scored, verdict, answer, posted>>

\* new Map<string, number>()
EmptyCache == [h \in {} |-> ProbNeutral]

NoReply == [code |-> 0, message |-> <<>>, body |-> <<>>]
IdleQuery ==
  [state |-> "idle", kind |-> "result", id |-> UnknownId, seen |-> "none", reply |-> NoReply]

ServiceInit ==
  /\ results = <<>>
  /\ cache = EmptyCache
  /\ pc = [j \in Ids |-> "none"]
  /\ thumb = [j \in Ids |-> "none"]
  /\ shot = [j \in Ids |-> ""]
  /\ audio = [j \in Ids |-> "none"]
  /\ artifact = [j \in Ids |-> "absent"]
  /\ tr = [j \in Ids |-> NoTranscript]
  /\ failedAt = [j \in Ids |-> "none"]
  /\ hist = <<>>
  /\ startedAt = [j \in Ids |-> -1]
  /\ invoked = [j \in Ids |-> FALSE]
  /\ ret = [j \in Ids |-> -1]
  /\ query = [k \in Queries |-> IdleQuery]
  /\ submitReply = NoReply
  /\ answer = [j \in Ids |-> "none"]
  /\ posted = [j \in Ids |-> <<>>]

Init ==
  /\ ServiceInit
  /\ scored = <<>>
  /\ verdict = Undefined

\* --------------------------------------------------------- record updates
NewRecord(id, url) ==
  [id |-> id, videoUrl |-> url, screenshotPath |-> "", transcript |-> <<>>,
   overallAnalysis |-> Undefined, status |-> "processing", error |-> Undefined]

\* The catch block with `result.status = 'error'` left out.
ErrorRecord_KeepsStatus(r, message) == [r EXCEPT !.error = Some(message)]

\* The catch block with `result.error = error.message` left out.
ErrorRecord_NoDetail(r, message) == [r EXCEPT !.status = "error"]

\* processVideo's catch block.
ErrorRecord(r, message) == [r EXCEPT !.status = "error", !.error = Some(message)]

\* processVideo computing the summary only for a non-empty segment list.
CompletedRecord_SummaryIfSegments(r, segments) ==
  [r EXCEPT !.transcript = segments,
            !.overallAnalysis =
              IF segments = <<>> THEN @ ELSE Some(calculateOverallAnalysis(segments)),
            !.status = "completed"]

\* processVideo, lines 95-97.
CompletedRecord(r, segments) ==
  [r EXCEPT !.transcript = segments,
            !.overallAnalysis = Some(calculateOverallAnalysis(segments)),
            !.status = "completed"]

BadRequest(message) == [code |-> 400, message |-> message, body |-> <<>>]
Ok(body) == [code |-> 200, message |-> <<>>, body |-> Some(body)]

\* ---------------------------------------------------------- analyzeVideo
\* analyzeVideo keying the record by an id that may already be in the store.
Submit_ReusesId(url) ==
  /\ IF ~validateURL(url)
     THEN /\ submitReply' = BadRequest(<<"Invalid YouTube URL">>)
          /\ UNCHANGED <<results, pc, thumb, audio>>
     ELSE \E id \in Ids :
            /\ results' = (id :> NewRecord(id, url)) @@ results
            /\ pc' = [pc EXCEPT ![id] = "acquire"]
            /\ thumb' = [thumb EXCEPT ![id] = "launch"]
            /\ audio' = [audio EXCEPT ![id] = "running"]
            /\ submitReply' = Ok([id |-> id])
  /\ UNCHANGED <<cache, shot, artifact, tr, failedAt, hist, startedAt, invoked, ret, query,
                 scored, verdict, answer, posted>>

\* analyzeVideo storing the record before it validates the url.
Submit_AllocatesFirst(url) ==
  /\ \E id \in Ids \ DOMAIN results :
       /\ results' = (id :> NewRecord(id, url)) @@ results
       /\ IF ~validateURL(url)
          THEN /\ submitReply' = BadRequest(<<"Invalid YouTube URL">>)
               /\ UNCHANGED <<pc, thumb, audio>>
          ELSE /\ pc' = [pc EXCEPT ![id] = "acquire"]
               /\ thumb' = [thumb EXCEPT ![id] = "launch"]
               /\ audio' = [audio EXCEPT ![id] = "running"]
               /\ submitReply' = Ok([id |-> id])
  /\ UNCHANGED <<cache, shot, artifact, tr, failedAt, hist, startedAt, invoked, ret, query,
                 scored, verdict, answer, posted>>

\* POST /analyze.  uuidv4 is any id the store does not hold.  processVideo
\* runs up to its first await inside the same call, so both acquisition
\* tasks are launched before the id is returned.
Submit(url) ==
  /\ IF ~validateURL(url)
     THEN /\ submitReply' = BadRequest(<<"Invalid YouTube URL">>)
          /\ UNCHANGED <<results, pc, thumb, audio>>
     ELSE \E id \in Ids \ DOMAIN results :
            /\ results' = (id :> NewRecord(id, url)) @@ results
            /\ pc' = [pc EXCEPT ![id] = "acquire"]
            /\ thumb' = [thumb EXCEPT ![id] = "launch"]
            /\ audio' = [audio EXCEPT ![id] = "running"]
            /\ submitReply' = Ok([id |-> id])
  /\ UNCHANGED <<cache, shot, artifact, tr, failedAt, hist, startedAt, invoked, ret, query,
                 scored, verdict, answer, posted>>

\* ---------------------------------------------------------- processVideo
\* The continuation writing the thumbnail to every stored record.
AcquireJoined_EveryRecord(j, screenshotUrl) ==
  /\ results' = [i \in DOMAIN results |->
                   [results[i] EXCEPT !.screenshotPath = screenshotUrl]]
  /\ pc' = [pc EXCEPT ![j] = "readFile"]

\* The continuation of `await Promise.all([...])` once both promises are
\* fulfilled: the thumbnail is stored and transcribeAudio issues fs.readFile.
AcquireJoined(j, screenshotUrl) ==
  /\ results' = [results EXCEPT ![j].screenshotPath = screenshotUrl]
  /\ pc' = [pc EXCEPT ![j] = "readFile"]

\* A catch block that records the error and lets the function go on from
\* the rejected call.
Catch_KeepsRunning(j, message, call) ==
  /\ results' = [results EXCEPT ![j] = ErrorRecord(@, message)]
  /\ failedAt' = [failedAt EXCEPT ![j] = call]
  /\ UNCHANGED pc

\* The catch block, entered by the rejection of the awaited promise.
Catch(j, message, call) ==
  /\ results' = [results EXCEPT ![j] = ErrorRecord(@, message)]
  /\ pc' = [pc EXCEPT ![j] = "done"]
  /\ failedAt' = [failedAt EXCEPT ![j] = call]

\* ----------------------------------------------------- captureScreenshot
\* captureScreenshot storing its url in the record by itself whenever the
\* join does not.
SettleThumb_StoresLate(j, v) ==
  /\ thumb' = [thumb EXCEPT ![j] = "settled"]
  /\ shot' = [shot EXCEPT ![j] = v]
  /\ IF pc[j] = "acquire" /\ audio[j] = "ended"
     THEN AcquireJoined(j, v)
     ELSE /\ results' = [results EXCEPT ![j].screenshotPath = v]
          /\ UNCHANGED pc

\* captureScreenshot's promise is fulfilled with v (it is never rejected).
\* Promise.all is fulfilled by it when extractAudio has already ended.
SettleThumb(j, v) ==
  /\ thumb' = [thumb EXCEPT ![j] = "settled"]
  /\ shot' = [shot EXCEPT ![j] = v]
  /\ IF pc[j] = "acquire" /\ audio[j] = "ended"
     THEN AcquireJoined(j, v)
     ELSE UNCHANGED <<results, pc>>

\* A failure inside the try block once the browser exists: the catch picks
\* the placeholder and the finally block issues browser.close().
ThumbFail(j) ==
  /\ thumb' = [thumb EXCEPT ![j] = "close"]
  /\ shot' = [shot EXCEPT ![j] = ShotFailed]
  /\ UNCHANGED <<results, pc>>

ThumbNext(j, phase) ==
  /\ thumb' = [thumb EXCEPT ![j] = phase]
  /\ UNCHANGED <<results, pc, shot>>

ThumbFrame ==
  UNCHANGED <<cache, audio, artifact, tr, failedAt, hist, startedAt, invoked, ret,
              query, submitReply, scored, verdict, answer, posted>>

\* captureScreenshot without its catch block: a failed launch rejects the
\* promise, and Promise.all with it.
Launch_Rejects(j, ok) ==
  /\ thumb[j] = "launch"
  /\ IF ok
     THEN ThumbNext(j, "newPage") /\ UNCHANGED failedAt
     ELSE /\ thumb' = [thumb EXCEPT ![j] = "settled"]
          /\ shot' = [shot EXCEPT ![j] = ShotFailed]
          /\ IF pc[j] = "acquire"
             THEN Catch(j, "Failed to launch the browser process", "captureScreenshot")
             ELSE UNCHANGED <<results, pc, failedAt>>
  /\ UNCHANGED <<cache, audio, artifact, tr, hist, startedAt, invoked, ret,
                 query, submitReply, scored, verdict, answer, posted>>

\* puppeteer.launch settles.  On failure browser is still undefined, so the
\* finally block closes nothing.
Launch(j, ok) ==
  /\ thumb[j] = "launch"
  /\ IF ok THEN ThumbNext(j, "newPage") ELSE SettleThumb(j, ShotFailed)
  /\ ThumbFrame

\* browser.newPage and page.setViewport settle.
NewPage(j, ok) ==
  /\ thumb[j] = "newPage"
  /\ IF ok THEN ThumbNext(j, "goto") ELSE ThumbFail(j)
  /\ ThumbFrame

\* page.goto settles (timeout 15000).
Goto(j, ok) ==
  /\ thumb[j] = "goto"
  /\ IF ok THEN ThumbNext(j, "sleep") ELSE ThumbFail(j)
  /\ ThumbFrame

\* The 2000 ms timer fires.
Sleep(j) ==
  /\ thumb[j] = "sleep"
  /\ ThumbNext(j, "screenshot")
  /\ ThumbFrame

\* page.screenshot settles; on success uploadToImgBB posts the image.
Screenshot(j, ok) ==
  /\ thumb[j] = "screenshot"
  /\ IF ok THEN ThumbNext(j, "upload") ELSE ThumbFail(j)
  /\ ThumbFrame

\* uploadToImgBB: the post settles (timeout 30000).  Anything but a body
\* with data.success is caught inside uploadToImgBB.
UploadReplies == {"success", "refused", "error", "timeout"}

uploadToImgBB(reply) == IF reply = "success" THEN HostedUrl ELSE UploadFailed

Upload(j, reply) ==
  /\ thumb[j] = "upload"
  /\ thumb' = [thumb EXCEPT ![j] = "close"]
  /\ shot' = [shot EXCEPT ![j] = uploadToImgBB(reply)]
  /\ UNCHANGED <<results, pc>>
  /\ ThumbFrame

\* browser.close() settles; its rejection is swallowed.
Close(j) ==
  /\ thumb[j] = "close"
  /\ SettleThumb(j, shot[j])
  /\ ThumbFrame

\* ------------------------------------------------------------ extractAudio
\* ffmpeg emits 'end': the wav file is complete and the promise fulfilled.
AudioEnd(j) ==
  /\ audio[j] = "running"
  /\ audio' = [audio EXCEPT ![j] = "ended"]
  /\ artifact' = [artifact EXCEPT ![j] = "present"]
  /\ IF thumb[j] = "settled"
     THEN AcquireJoined(j, shot[j])
     ELSE UNCHANGED <<results, pc>>
  /\ UNCHANGED <<cache, thumb, shot, tr, failedAt, hist, startedAt, invoked, ret,
                 query, submitReply, scored, verdict, answer, posted>>

\* ffmpeg emits 'error': the promise is rejected, Promise.all is rejected
\* with it at once and processVideo's catch block runs.
AudioError(j, message) ==
  /\ audio[j] = "running"
  /\ audio' = [audio EXCEPT ![j] = "failed"]
  /\ Catch(j, message, "extractAudio")
  /\ UNCHANGED <<cache, thumb, shot, artifact, tr, hist, startedAt, invoked, ret,
                 query, submitReply, scored, verdict, answer, posted>>

\* --------------------------------------------------------- transcribeAudio
PipelineFrame ==
  UNCHANGED <<thumb, shot, audio, query, submitReply, scored, verdict, answer>>

\* fs.readFile settles; on success speechToText.convert is called.
ReadFile(j, ok) ==
  /\ pc[j] = "readFile"
  /\ IF ok
     THEN /\ pc' = [pc EXCEPT ![j] = "convert"]
          /\ UNCHANGED <<results, failedAt>>
     ELSE \E message \in ReadErrors : Catch(j, message, "readFile")
  /\ UNCHANGED <<cache, artifact, tr, hist, startedAt, invoked, ret, posted>>
  /\ PipelineFrame

\* speechToText.convert is rejected.
ConvertError(j, message) ==
  /\ pc[j] = "convert"
  /\ Catch(j, message, "convert")
  /\ UNCHANGED <<cache, artifact, tr, hist, startedAt, invoked, ret, posted>>
  /\ PipelineFrame

\* ---------------------------------------------------------- getAIProbability
\* getAIProbability with its cache.has test ahead of its length test.
Lookup_CacheFirst(t, c) ==
  IF Hash[t] \in DOMAIN c THEN "hit"
  ELSE IF Len(Text[t]) < MinTextLength THEN "bypass"
  ELSE "miss"

\* getAIProbability without its cache.has test.
Lookup_NeverHits(t, c) ==
  IF Len(Text[t]) < MinTextLength THEN "bypass" ELSE "miss"

\* The synchronous part, for the text of transcript t: what the call does
\* before it could await.
Lookup(t, c) ==
  IF Len(Text[t]) < MinTextLength THEN "bypass"
  ELSE IF Hash[t] \in DOMAIN c THEN "hit"
  ELSE "miss"

\* data.output.label === 0 ? 0.8 : 0.2 (an undefined label is not 0), and 0.5
\* from the catch block, which the TypeError of reading `label` of an
\* undefined data.output enters like a rejected post.
Labelled == {"label0", "label1", "nolabel"}

\* How a post ended: with a label, with an output that has none, or without
\* an output to read.
Outcome(reply) ==
  IF reply \in {"label0", "label1"} THEN "label"
  ELSE IF reply \in Labelled THEN "nolabel"
  ELSE "failed"

\* getAIProbability returning a graded score instead of one of two values.
ClassifyValue_Graded(reply) ==
  IF reply = "label0" THEN 95
  ELSE IF reply \in Labelled THEN 10
  ELSE ProbNeutral

ClassifyValue(reply) ==
  IF reply = "label0" THEN ProbAI
  ELSE IF reply \in Labelled THEN ProbHuman
  ELSE ProbNeutral

\* getAIProbability storing whatever it returns, the fallback included.
CacheAfter_StoresFallback(c, hash, reply) == (hash :> ClassifyValue(reply)) @@ c

\* getAIProbability storing only under a fingerprint the cache does not hold.
CacheAfter_KeepsFirst(c, hash, reply) ==
  IF reply \in Labelled /\ hash \notin DOMAIN c
  THEN (hash :> ClassifyValue(reply)) @@ c
  ELSE c

\* getAIProbability without its cache.set.
CacheAfter_NeverStores(c, hash, reply) == c

\* cache.set(hash, probability) is reached only when the post succeeded and
\* the body could be read.
CacheAfter(c, hash, reply) ==
  IF reply \in Labelled THEN (hash :> ClassifyValue(reply)) @@ c ELSE c

\* ------------------------------------------- processVideo, lines 93 to 99
\* analyzeTranscript has returned `segments`: the record is completed and
\* fs.unlink is issued for the wav file.
Complete(j, segs) ==
  /\ results' = [results EXCEPT ![j] = CompletedRecord(@, segs)]
  /\ pc' = [pc EXCEPT ![j] = "done"]
  /\ artifact' = [artifact EXCEPT ![j] = "unlinkIssued"]

\* getAIProbability returns p to analyzeTranscript.
Returned(j, p) ==
  /\ hist' = Append(hist, j)
  /\ ret' = [ret EXCEPT ![j] = p]

\* speechToText.convert is fulfilled with a transcript; analyzeTranscript
\* runs up to the classification post, or to the end when none is made.
ConvertOk(j, t) ==
  /\ pc[j] = "convert"
  /\ tr' = [tr EXCEPT ![j] = t]
  /\ IF Len(Units[t]) = 0
     THEN /\ Complete(j, <<>>)
          /\ UNCHANGED <<hist, ret, startedAt, invoked, posted>>
     ELSE /\ startedAt' = [startedAt EXCEPT ![j] = Len(hist)]
          /\ IF Lookup(t, cache) = "miss"
             THEN /\ pc' = [pc EXCEPT ![j] = "classify"]
                  /\ invoked' = [invoked EXCEPT ![j] = TRUE]
                  /\ posted' = [posted EXCEPT ![j] = Text[t]]
                  /\ UNCHANGED <<results, artifact, hist, ret>>
             ELSE LET prob == IF Lookup(t, cache) = "hit" THEN cache[Hash[t]]
                                                         ELSE ProbNeutral
                  IN /\ Returned(j, prob)
                     /\ Complete(j, MakeSegments(Units[t], prob))
                     /\ UNCHANGED <<invoked, posted>>
  /\ UNCHANGED <<cache, failedAt>>
  /\ PipelineFrame

\* The classification post settles (timeout AI_DETECTION_TIMEOUT).
Classify(j, reply) ==
  /\ pc[j] = "classify"
  /\ cache' = CacheAfter(cache, Hash[tr[j]], reply)
  /\ Returned(j, ClassifyValue(reply))
  /\ Complete(j, MakeSegments(Units[tr[j]], ClassifyValue(reply)))
  /\ answer' = [answer EXCEPT ![j] = Outcome(reply)]
  /\ UNCHANGED <<tr, failedAt, startedAt, invoked>>
  /\ UNCHANGED <<thumb, shot, audio, query, submitReply, scored, verdict, posted>>

\* ------------------------------------------------- getResult and getStatus
Throw(message) == [threw |-> TRUE, message |-> message, value |-> <<>>]
Return(value) == [threw |-> FALSE, message |-> <<>>, value |-> Some(value)]

ErrorText(error) == IF error = Undefined THEN "undefined" ELSE error[1]

\* getResult without its `status === 'error'` test.
getResult_ReturnsFailed(r) ==
  IF r.status = "processing" THEN Throw(<<"Analysis timeout">>) ELSE Return(r)

\* AnalysisService.getResult once its polling loop has been left.
getResult(r) ==
  IF r.status = "processing" THEN Throw(<<"Analysis timeout">>)
  ELSE IF r.status = "error" THEN Throw(<<"Analysis failed: ", ErrorText(r.error)>>)
  ELSE Return(r)

\* AnalysisController.getResult and getStatus around it.
ControllerReply(kind, r) ==
  LET out == getResult(r)
  IN IF out.threw THEN BadRequest(out.message)
     ELSE IF kind = "status"
          THEN Ok([status |-> out.value[1].status, error |-> out.value[1].error])
          ELSE Ok(out.value[1])

QueryKinds == {"result", "status"}

QueryFrame ==
  UNCHANGED <<results, cache, pc, thumb, shot, audio, artifact, tr, failedAt,
              hist, startedAt, invoked, ret, submitReply, scored, verdict, answer, posted>>

\* The response to query q of `kind` about record r; `seen` keeps the status
\* getResult read when it left its loop.
Replied(kind, r) ==
  [state |-> "replied", kind |-> kind, id |-> r.id, seen |-> r.status,
   reply |-> ControllerReply(kind, r)]

\* getResult answering for an id it does not hold as for a job just stored.
QueryStart_DefaultsProcessing(k, kind, id) ==
  /\ query[k].state = "idle"
  /\ query' = [query EXCEPT ![k] =
       IF id \notin DOMAIN results
       THEN [state |-> "replied", kind |-> kind, id |-> id, seen |-> "none",
             reply |-> Ok([status |-> "processing", error |-> Undefined])]
       ELSE IF results[id].status = "processing"
       THEN [state |-> "waiting", kind |-> kind, id |-> id, seen |-> "none",
             reply |-> NoReply]
       ELSE Replied(kind, results[id])]
  /\ QueryFrame

\* GET /result/:id or GET /status/:id arrives.  An unknown id is refused at
\* once; a processing job makes the call sleep; otherwise it answers.
QueryStart(k, kind, id) ==
  /\ query[k].state = "idle"
  /\ query' = [query EXCEPT ![k] =
       IF id \notin DOMAIN results
       THEN [state |-> "replied", kind |-> kind, id |-> id, seen |-> "none",
             reply |-> BadRequest(<<"Analysis not found">>)]
       ELSE IF results[id].status = "processing"
       THEN [state |-> "waiting", kind |-> kind, id |-> id, seen |-> "none",
             reply |-> NoReply]
       ELSE Replied(kind, results[id])]
  /\ QueryFrame

\* getResult marking the job failed when its own wait expires.
QueryPoll_FailsJob(k, expired) ==
  /\ query[k].state = "waiting"
  /\ query' = [query EXCEPT ![k] =
       IF results[@.id].status = "processing" /\ ~expired
       THEN @
       ELSE Replied(@.kind, results[@.id])]
  /\ results' = IF results[query[k].id].status = "processing" /\ expired
                THEN [results EXCEPT ![query[k].id] = ErrorRecord(@, "Analysis timeout")]
                ELSE results
  /\ UNCHANGED <<cache, pc, thumb, shot, audio, artifact, tr, failedAt,
                 hist, startedAt, invoked, ret, submitReply, scored, verdict, answer, posted>>

\* The 1000 ms timer of the polling loop fires.  `expired` is the outcome of
\* Date.now() - startTime < 180000 being false.
QueryPoll(k, expired) ==
  /\ query[k].state = "waiting"
  /\ query' = [query EXCEPT ![k] =
       IF results[@.id].status = "processing" /\ ~expired
       THEN @
       ELSE Replied(@.kind, results[@.id])]
  /\ QueryFrame

\* The client has read the response.
QueryClose(k) ==
  /\ query[k].state = "replied"
  /\ query' = [query EXCEPT ![k] = IdleQuery]
  /\ QueryFrame

\* ----------------------------------------------------------- specification
ThumbStep(j) ==
  \/ \E ok \in BOOLEAN : Launch(j, ok)
  \/ \E ok \in BOOLEAN : NewPage(j, ok)
  \/ \E ok \in BOOLEAN : Goto(j, ok)
  \/ Sleep(j)
  \/ \E ok \in BOOLEAN : Screenshot(j, ok)
  \/ \E reply \in UploadReplies : Upload(j, reply)
  \/ Close(j)

AudioStep(j) ==
  \/ AudioEnd(j)
  \/ \E message \in AudioErrors : AudioError(j, message)

PipelineStep(j) ==
  \/ \E ok \in BOOLEAN : ReadFile(j, ok)
  \/ \E message \in ConvertErrors : ConvertError(j, message)
  \/ \E t \in Transcripts : ConvertOk(j, t)
  \/ \E reply \in ClassifyReplies : Classify(j, reply)

QueryStep(k) ==
  \/ \E kind \in QueryKinds, id \in Ids \cup {UnknownId} : QueryStart(k, kind, id)
  \/ \E expired \in BOOLEAN : QueryPoll(k, expired)
  \/ QueryClose(k)

Next ==
  \/ \E url \in Urls : Submit(url)
  \/ \E j \in Ids : ThumbStep(j)
  \/ \E j \in Ids : AudioStep(j)
  \/ \E j \in Ids : PipelineStep(j)
  \/ \E k \in Queries : QueryStep(k)

Spec == Init /\ [][Next]_vars

\* Every call of a job settles except extractAudio, which waits for an
\* 'end' or 'error' event of ffmpeg that no timer replaces.
FairSpec ==
  /\ Spec
  /\ \A j \in Ids : WF_vars(ThumbStep(j)) /\ WF_vars(PipelineStep(j))

\* ------------------------------------------- calculateOverallAnalysis alone
\* The aggregator applied to segment lists the pipeline does not produce
\* (segments of one list with different probabilities): every list of up to
\* MaxSegments segments over Probabilities, and the lists of up to MaxUniform
\* equal segments.
MaxSegments == 5
MaxUniform == 10
Probabilities == {10, 30, 50, 70, 90, 95}

Scored(p) ==
  [text |-> <<>>, start_time |-> 0, end_time |-> 0, speaker |-> "null",
   ai_probability |-> p]

ScoredLists ==
  {[i \in 1..Len(l) |-> Scored(l[i])] :
     l \in UNION {[1..n -> Probabilities] : n \in 0..MaxSegments}
           \cup {[i \in 1..n |-> p] : n \in 1..MaxUniform, p \in Probabilities}}

AggInit ==
  /\ ServiceInit
  /\ scored \in ScoredLists
  /\ verdict = Undefined

Aggregate ==
  /\ verdict = Undefined
  /\ verdict' = Some(calculateOverallAnalysis(scored))
  /\ UNCHANGED <<results, cache, pc, thumb, shot, audio, artifact, tr, failedAt,
                 hist, startedAt, invoked, ret, query, submitReply, scored, answer, posted>>

AggSpec == AggInit /\ [][Aggregate]_vars

\* ------------------------------------------------------------------ claims
Terminal == {"completed", "error"}
Known == DOMAIN results
Status(j) == IF j \in Known THEN results[j].status ELSE "none"

\* C1: every created job eventually leaves `processing` for `completed` or
\* `error`.
C1_EveryJobTerminates ==
  \A j \in Ids : [](Status(j) = "processing" => <>(Status(j) \in Terminal))

\* C2: once a job's status is terminal its record is never written again, and
\* a status only ever changes from `processing` to `completed` or `error`.
C2_TerminalRecordFrozen ==
  [][\A j \in Known :
       /\ j \in DOMAIN results'
       /\ results[j].status \in Terminal => results'[j] = results[j]
       /\ results'[j].status # results[j].status =>
            results[j].status = "processing" /\ results'[j].status \in Terminal]_vars

\* The thumbnail task of a job has delivered its hosted image after Audio
\* Extraction had put the job in `error`; the record did not take it.
C2_Witness ==
  \E j \in Known :
    /\ results[j].status = "error"
    /\ failedAt[j] = "extractAudio"
    /\ thumb[j] = "settled"
    /\ shot[j] = HostedUrl
    /\ results[j].screenshotPath = ""

\* C3: processVideo moves past the acquisition await (to Transcription or to a
\* terminal status) only when both acquisition tasks have settled.
C3_AcquisitionBarrier ==
  \A j \in Ids :
    pc[j] \notin {"none", "acquire"} =>
      thumb[j] = "settled" /\ audio[j] \in {"ended", "failed"}

\* C4 (as claimed): exactly one of "segments non-empty and summary present"
\* and "status is not completed" holds of every job.
C4_CompletedHasSegments ==
  \A j \in Known :
    (results[j].transcript # <<>> /\ results[j].overallAnalysis # Undefined)
      # (results[j].status # "completed")

\* C4 (amended): a completed job has a summary and one segment per raw unit,
\* so its segment list is empty exactly when Transcription yielded no unit; a
\* job that is not completed has no segment and no summary.
C4_CompletedHasSummary ==
  \A j \in Known :
    IF results[j].status = "completed"
    THEN /\ results[j].overallAnalysis # Undefined
         /\ tr[j] # NoTranscript
         /\ Len(results[j].transcript) = Len(Units[tr[j]])
    ELSE /\ results[j].transcript = <<>>
         /\ results[j].overallAnalysis = Undefined

\* A job completed from a transcript without raw units.
C4_Witness ==
  \E j \in Known :
    /\ results[j].status = "completed"
    /\ results[j].transcript = <<>>
    /\ results[j].overallAnalysis # Undefined

\* C5: a job that has ended and whose audio artifact was produced has had the
\* release of the artifact issued.
C5_ArtifactReleased ==
  \A j \in Ids :
    pc[j] = "done" /\ artifact[j] # "absent" => artifact[j] = "unlinkIssued"

\* Two successive getAIProbability calls on one text: i is the last call on
\* j's fingerprint that had returned when j's call began.
LongText(j) == tr[j] # NoTranscript /\ Len(Text[tr[j]]) >= MinTextLength

Earlier(j) ==
  {n \in 1..startedAt[j] : LongText(hist[n]) /\ Hash[tr[hist[n]]] = Hash[tr[j]]}

Last(S) == CHOOSE n \in S : \A m \in S : m <= n

Successive(i, j) ==
  /\ i # j
  /\ LongText(j)
  /\ ret[j] # -1
  /\ Earlier(j) # {}
  /\ i = hist[Last(Earlier(j))]
  /\ Text[tr[i]] = Text[tr[j]]

Posts(j) == IF invoked[j] THEN 1 ELSE 0

ThumbFailed(j) == thumb[j] = "settled" /\ shot[j] # HostedUrl

\* C7: a job ends in `error` only through Audio Extraction or Transcription;
\* when the thumbnail task did not yield a hosted image and Audio Extraction
\* and Transcription succeeded, the job is never in `error` and ends
\* `completed` with a placeholder as its thumbnail.
C7_ThumbnailFailureSoft ==
  \A j \in Known :
    /\ results[j].status = "error" => failedAt[j] \in {"extractAudio", "readFile", "convert"}
    /\ ThumbFailed(j) /\ audio[j] = "ended" /\ tr[j] # NoTranscript =>
         /\ results[j].status # "error"
         /\ results[j].screenshotPath \in Placeholders
         /\ pc[j] = "done" => results[j].status = "completed"

\* A job completed although the upload of its screenshot failed.
C7_Witness ==
  \E j \in Known :
    /\ shot[j] = UploadFailed
    /\ results[j].status = "completed"
    /\ results[j].screenshotPath = UploadFailed

\* C8: a job whose Audio Extraction failed is in `error` with a non-empty
\* error detail, no segment and no summary.
C8_AudioFailureHard ==
  \A j \in Ids :
    audio[j] = "failed" =>
      /\ j \in Known
      /\ results[j].status = "error"
      /\ results[j].error # Undefined
      /\ results[j].error # Some("")
      /\ results[j].transcript = <<>>
      /\ results[j].overallAnalysis = Undefined

\* Audio Extraction has failed while the thumbnail task is still running.
C8_Witness ==
  \E j \in Known :
    /\ audio[j] = "failed"
    /\ thumb[j] = "screenshot"
    /\ results[j].status = "error"

\* C9: a status query about a known job never waits, and answers normally
\* with the job's status.
C9_StatusReportsCurrent ==
  \A k \in Queries :
    query[k].kind = "status" /\ query[k].id \in Known =>
      /\ query[k].state # "waiting"
      /\ query[k].state = "replied" =>
           /\ query[k].reply.code = 200
           /\ query[k].reply.body # <<>>
           /\ query[k].reply.body[1].status = query[k].seen

\* C10 (as claimed): a result query that found the job terminal answers with
\* the job record.
C10_TerminalReturnsRecord ==
  \A k \in Queries :
    query[k].state = "replied" /\ query[k].kind = "result" /\ query[k].seen \in Terminal =>
      /\ query[k].reply.code = 200
      /\ query[k].reply.body = Some(results[query[k].id])

\* C10 (amended): it answers with the record of a completed job, and with a
\* bad request carrying "Analysis failed: " and the error detail for a job in
\* `error`.
C10_TerminalReply ==
  \A k \in Queries :
    query[k].state = "replied" /\ query[k].kind = "result" /\ query[k].seen \in Terminal =>
      LET r == results[query[k].id]
      IN IF r.status = "completed"
         THEN query[k].reply = [code |-> 200, message |-> <<>>, body |-> Some(r)]
         ELSE /\ r.status = "error"
              /\ r.error # Undefined
              /\ query[k].reply =
                   [code |-> 400, message |-> <<"Analysis failed: ", r.error[1]>>,
                    body |-> <<>>]

\* A result query has been refused because the job is in `error`.
C10_Witness ==
  \E k \in Queries :
    /\ query[k].state = "replied"
    /\ query[k].kind = "result"
    /\ query[k].seen = "error"
    /\ query[k].reply.code = 400

\* C11: a step of a query writes neither the store, the cache nor any task of
\* a job; a query that left its wait on a job still `processing` is answered
\* "Analysis timeout", which the answer about a failed job never is.
C11_TimeoutLeavesJobAlone ==
  [][query' # query =>
       /\ UNCHANGED <<results, cache, pc, thumb, shot, audio, artifact, tr, failedAt>>
       /\ \A k \in Queries :
            query'[k].state = "replied" /\ query'[k].id \in Known =>
              /\ query'[k].seen = "processing" =>
                   query'[k].reply = BadRequest(<<"Analysis timeout">>)
              /\ query'[k].seen = "error" =>
                   /\ query'[k].reply.code = 400
                   /\ query'[k].reply.message # <<"Analysis timeout">>]_vars

\* A query was answered "Analysis timeout" and the job has completed since.
C11_Witness ==
  \E k \in Queries :
    /\ query[k].state = "replied"
    /\ query[k].seen = "processing"
    /\ query[k].reply = BadRequest(<<"Analysis timeout">>)
    /\ query[k].id \in Known
    /\ results[query[k].id].status = "completed"

\* C12: the summary computed from an empty segment list has the neutral
\* probability 0.5 and confidence "medium".
C12_EmptyAggregation ==
  \A j \in Known :
    results[j].status = "completed" /\ results[j].transcript = <<>> =>
      /\ results[j].overallAnalysis[1].overall_ai_probability = Double(ProbNeutral)
      /\ results[j].overallAnalysis[1].confidence_level = "medium"

\* C13: a step that answers a submission with an id, or that adds to the
\* store or starts a pipeline, adds exactly one record, under the returned
\* id, which the store did not hold; the record is `processing` with no
\* thumbnail, segment, summary or error, every other record and pipeline is
\* left as it was, and the pipeline of the new id starts, for the only time.
C13_SubmitCreatesOneJob ==
  [][(\/ DOMAIN results' # DOMAIN results
      \/ submitReply' # submitReply /\ submitReply'.code = 200
      \/ \E j \in Ids : pc'[j] = "acquire" /\ pc[j] # "acquire") =>
       \E id \in Ids \ Known :
         /\ submitReply' = Ok([id |-> id])
         /\ DOMAIN results' = Known \cup {id}
         /\ \A j \in Known : results'[j] = results[j]
         /\ results'[id].id = id
         /\ validateURL(results'[id].videoUrl)
         /\ results'[id].status = "processing"
         /\ results'[id].screenshotPath = ""
         /\ results'[id].transcript = <<>>
         /\ results'[id].overallAnalysis = Undefined
         /\ results'[id].error = Undefined
         /\ pc[id] = "none" /\ thumb[id] = "none" /\ audio[id] = "none"
         /\ pc'[id] = "acquire" /\ thumb'[id] = "launch" /\ audio'[id] = "running"
         /\ \A j \in Ids \ {id} :
              pc'[j] = pc[j] /\ thumb'[j] = thumb[j] /\ audio'[j] = audio[j]
         /\ cache' = cache]_vars

\* The second submission has just been answered: its record is fresh and
\* the completed record of the first one is still there.
C13_Witness ==
  \E i, j \in Known :
    /\ i # j
    /\ submitReply = Ok([id |-> j])
    /\ results[j] = NewRecord(j, ValidUrl)
    /\ pc[j] = "acquire" /\ thumb[j] = "launch" /\ audio[j] = "running"
    /\ results[i].status = "completed"

\* C14: a step that refuses a submission answers "Invalid YouTube URL" and
\* leaves the store, the cache and every pipeline as they were.
C14_RejectBeforeAllocation ==
  [][submitReply' # submitReply /\ submitReply'.code = 400 =>
       /\ submitReply' = BadRequest(<<"Invalid YouTube URL">>)
       /\ UNCHANGED <<results, cache, pc, thumb, shot, audio, artifact, tr>>]_vars

\* A submission has been refused while the store holds one job, still
\* `processing`, and an id is still free.
C14_Witness ==
  /\ submitReply = BadRequest(<<"Invalid YouTube URL">>)
  /\ Cardinality(Known) = 1
  /\ \E j \in Known : results[j].status = "processing" /\ pc[j] = "convert"

\* C15: a query that arrives for an id the store does not hold is answered
\* in the same step, with the error "Analysis not found", and the store is
\* left as it was.
C15_UnknownIdNotFound ==
  [][\A k \in Queries :
       query[k].state = "idle" /\ query'[k] # query[k] /\ query'[k].id \notin Known =>
         /\ query'[k].state = "replied"
         /\ query'[k].reply = BadRequest(<<"Analysis not found">>)
         /\ results' = results]_vars

\* A status query about an id not in the store has been refused while the
\* store holds a job.
C15_Witness ==
  \E k \in Queries :
    /\ query[k].state = "replied"
    /\ query[k].kind = "status"
    /\ query[k].id \notin Known
    /\ query[k].reply = BadRequest(<<"Analysis not found">>)
    /\ Known # {}

\* C16: a job whose classification post failed, timed out or was answered
\* with a malformed body (no data.output, or an output without a label) is
\* completed, never in `error`, with 0.5 returned and on each of its segments.
C16_ClassificationFailureSoft ==
  \A j \in Known :
    answer[j] \in {"nolabel", "failed"} =>
      /\ ret[j] = ProbNeutral
      /\ results[j].status = "completed"
      /\ results[j].transcript # <<>>
      /\ \A i \in 1..Len(results[j].transcript) :
           results[j].transcript[i].ai_probability = ProbNeutral

\* The mean of the segments' probabilities compared without rounding, the
\* probabilities read as the doubles they are (their exact sum against n times
\* the double h hundredths) or as the decimals they print as (their
\* hundredths against n times h).
RECURSIVE ExactSum(_, _)
ExactSum(segments, i) ==
  IF i = 0 THEN <<0, 0, 0>>
  ELSE LET sum == ExactSum(segments, i - 1)
           d == Double(segments[i].ai_probability)
       IN Carry(<<sum[1] + d[1], sum[2] + d[2], sum[3] + d[3]>>)

RECURSIVE Hundredths(_, _)
Hundredths(segments, i) ==
  IF i = 0 THEN 0 ELSE Hundredths(segments, i - 1) + segments[i].ai_probability

MeanAtLeast(segments, h) ==
  LET n == Len(segments)
      d == Double(h)
  IN Geq(ExactSum(segments, n), Carry(<<n * d[1], n * d[2], n * d[3]>>))

DecimalMeanAtLeast(segments, h) ==
  Hundredths(segments, Len(segments)) >= Len(segments) * h

PredictionOf(ai, mixed) ==
  IF ai THEN "AI-Generated Content"
  ELSE IF mixed THEN "Mixed Content"
  ELSE "Human-Generated Content"

\* C17: for a non-empty list the summary counts the segments at 0.7 or more
\* as AI, those at 0.3 or less as human and the rest as neutral, the three
\* counts add up to the total, and the prediction is the AI label when the mean
\* is at least 0.7, the mixed label when it is at least 0.5 and the human
\* label otherwise (the mean taken without rounding, under either reading of
\* the probabilities).
C17_CountsAndPrediction ==
  verdict # Undefined /\ scored # <<>> =>
    LET v == verdict[1]
        n == Len(scored)
        ai == Cardinality({i \in 1..n : scored[i].ai_probability >= AiThreshold})
        human == Cardinality({i \in 1..n : scored[i].ai_probability <= HumanThreshold})
    IN /\ v.sentence_stats.total_sentences = n
       /\ v.sentence_stats.ai_sentences = ai
       /\ v.sentence_stats.human_sentences = human
       /\ v.sentence_stats.neutral_sentences = n - ai - human
       /\ v.sentence_stats.neutral_sentences >= 0
       /\ v.overall_prediction \in
            { PredictionOf(MeanAtLeast(scored, AiThreshold),
                           MeanAtLeast(scored, MixedThreshold)),
              PredictionOf(DecimalMeanAtLeast(scored, AiThreshold),
                           DecimalMeanAtLeast(scored, MixedThreshold)) }

\* The segments of a list that are AI-like and human-like.
AiLike(segments) ==
  {i \in 1..Len(segments) : segments[i].ai_probability >= AiThreshold}

HumanLike(segments) ==
  {i \in 1..Len(segments) : segments[i].ai_probability <= HumanThreshold}

\* C18: the confidence of a summary is "high" exactly when the AI-like
\* segments or the human-like segments are strictly more than 80% of all
\* segments, and "medium" otherwise; ten segments at 0.9 give "high" and the
\* AI prediction.
C18_ConfidenceByShare ==
  verdict # Undefined =>
    LET v == verdict[1]
        n == Len(scored)
        ai == Cardinality(AiLike(scored))
        human == Cardinality(HumanLike(scored))
        high == ai * 100 > HighShare * n \/ human * 100 > HighShare * n
    IN /\ v.confidence_level = IF high THEN "high" ELSE "medium"
       /\ (n = 10 /\ \A i \in 1..n : scored[i].ai_probability = 90) =>
            /\ v.confidence_level = "high"
            /\ v.overall_prediction = "AI-Generated Content"

\* A list of five segments of which exactly four (80%) are AI-like has been
\* summarised with "medium" confidence.
C18_Witness ==
  /\ verdict # Undefined
  /\ Len(scored) = 5
  /\ Cardinality(AiLike(scored)) = 4
  /\ verdict[1].confidence_level = "medium"

\* Job j's getAIProbability is called in this step, with the text of the
\* transcript the step delivers.
Called(j) ==
  tr[j] = NoTranscript /\ tr'[j] # NoTranscript /\ Len(Units[tr'[j]]) > 0

\* The call of job j finds the fingerprint of its text in the cache.
Cached(j) == Hash[tr'[j]] \in DOMAIN cache

\* The call of job j returns the cached probability in the same step, without
\* a classification post and without touching the cache.
ServedFromCache(j) ==
  /\ ret'[j] = cache[Hash[tr'[j]]]
  /\ pc'[j] = "done"
  /\ invoked'[j] = FALSE
  /\ cache' = cache

\* C19 as stated: whenever the fingerprint of the text is already in the
\* cache, getAIProbability returns the cached probability, makes no
\* classification call and leaves the cache unchanged.
C19_CacheHit ==
  [][\A j \in Ids : Called(j) /\ Cached(j) => ServedFromCache(j)]_vars

\* C19: whenever the text has at least the minimum length and its fingerprint
\* is already in the cache, getAIProbability returns the cached probability,
\* makes no classification call and leaves the cache unchanged.
C19_CacheHitLongText ==
  [][\A j \in Ids :
       Called(j) /\ Cached(j) /\ Len(Text[tr'[j]]) >= MinTextLength
         => ServedFromCache(j)]_vars

\* A job with a text of the minimum length or more has completed with a
\* classification result although no classification post was made for it: its
\* call was served from the cache.
C19_Witness ==
  \E j \in Ids :
    /\ pc[j] = "done"
    /\ tr[j] # NoTranscript
    /\ Len(Text[tr[j]]) >= MinTextLength
    /\ Hash[tr[j]] \in DOMAIN cache
    /\ invoked[j] = FALSE
    /\ ret[j] = cache[Hash[tr[j]]]

\* C20: for a text shorter than the minimum length, getAIProbability returns
\* 0.5 at once, makes no classification call and leaves the cache as it is,
\* whether or not the cache holds an entry under the fingerprint of the text.
C20_ShortTextBypass ==
  [][\A j \in Ids :
       Called(j) /\ Len(Text[tr'[j]]) < MinTextLength
         => /\ ret'[j] = ProbNeutral
            /\ pc'[j] = "done"
            /\ invoked'[j] = FALSE
            /\ cache' = cache]_vars

\* A job with a short text has completed with 0.5 and without a
\* classification post, although before its call another job had stored a
\* classification result under the same fingerprint.
C20_Witness ==
  \E i, j \in Ids :
    /\ pc[j] = "done"
    /\ tr[j] # NoTranscript
    /\ Len(Units[tr[j]]) > 0
    /\ Len(Text[tr[j]]) < MinTextLength
    /\ ret[j] = ProbNeutral
    /\ invoked[j] = FALSE
    /\ tr[i] # NoTranscript
    /\ Hash[tr[i]] = Hash[tr[j]]
    /\ answer[i] \in {"label", "nolabel"}
    /\ \E k \in 1..startedAt[j] : hist[k] = i
    /\ Hash[tr[j]] \in DOMAIN cache
    /\ cache[Hash[tr[j]]] # ProbNeutral

\* The stages of processVideo in the order of its statements.
StageRank ==
  [none |-> 0, acquire |-> 1, readFile |-> 2, convert |-> 3, classify |-> 4,
   done |-> 5]

\* Job j has a summary.
Summarised(j) == j \in Known /\ results[j].overallAnalysis # Undefined

\* C21: a job never goes back to a stage it has left; transcription starts
\* only from the join, with the thumbnail settled and the audio extracted;
\* classification starts only with the transcript transcription resolved
\* with; the summary is computed only once classification has returned (or
\* there was no unit to classify); and a job that failed has started and
\* starts no transcript stage, classification or summary after the failure.
C21_StageOrder ==
  [][\A j \in Ids :
       /\ StageRank[pc'[j]] >= StageRank[pc[j]]
       /\ (pc[j] # "readFile" /\ pc'[j] = "readFile")
            => pc[j] = "acquire" /\ thumb'[j] = "settled" /\ audio'[j] = "ended"
       /\ (pc[j] # "convert" /\ pc'[j] = "convert") => pc[j] = "readFile"
       /\ (startedAt[j] = -1 /\ startedAt'[j] # -1)
            => pc[j] = "convert" /\ tr'[j] # NoTranscript
       /\ (pc[j] # "classify" /\ pc'[j] = "classify")
            => pc[j] = "convert" /\ tr'[j] # NoTranscript /\ invoked'[j]
       /\ (~Summarised(j) /\ Summarised(j)')
            => /\ pc[j] \in {"convert", "classify"}
               /\ pc'[j] = "done"
               /\ tr'[j] # NoTranscript
               /\ Len(Units[tr'[j]]) > 0 => ret'[j] # -1
       /\ failedAt'[j] # "none"
            => /\ pc'[j] = "done"
               /\ tr'[j] = NoTranscript
               /\ startedAt'[j] = -1
               /\ invoked'[j] = FALSE
               /\ ~Summarised(j)']_vars

\* One job failed in extractAudio and its thumbnail task went on to settle
\* without any later stage starting, while another job went through
\* transcription and a classification post to its summary.
C21_Witness ==
  \E i, j \in Ids :
    /\ failedAt[j] = "extractAudio"
    /\ thumb[j] = "settled"
    /\ pc[j] = "done"
    /\ tr[j] = NoTranscript
    /\ pc[i] = "done"
    /\ invoked[i]
    /\ ret[i] # -1
    /\ Summarised(i)

\* C22: a stored job has a summary only when it is `completed` and an error
\* detail only when it is in `error`, and a job in `error` has no segments
\* and no summary, whichever call failed.
C22_SummaryAndErrorMatchStatus ==
  \A j \in Known :
    /\ results[j].overallAnalysis # Undefined => results[j].status = "completed"
    /\ results[j].error # Undefined => results[j].status = "error"
    /\ results[j].status = "error" =>
         /\ results[j].transcript = <<>>
         /\ results[j].overallAnalysis = Undefined

\* A job that failed in its last fallible call, speechToText.convert, is in
\* `error` with a detail, no segments and no summary, beside a completed job
\* with segments and a summary.
C22_Witness ==
  \E i, j \in Known :
    /\ failedAt[j] = "convert"
    /\ results[j].status = "error"
    /\ results[j].error # Undefined
    /\ results[j].transcript = <<>>
    /\ results[i].status = "completed"
    /\ results[i].transcript # <<>>
    /\ results[i].overallAnalysis # Undefined
    /\ results[i].error = Undefined

\* The texts of the first i units, in order, with one space between two.
RECURSIVE JoinedUpTo(_, _)
JoinedUpTo(units, i) ==
  IF i = 0 THEN <<>>
  ELSE IF i = 1 THEN UnitText(units[1])
  ELSE JoinedUpTo(units, i - 1) \o <<32>> \o UnitText(units[i])

Record(j) == IF j \in Known THEN Some(results[j]) ELSE Undefined

Run(j) ==
  <<pc[j], thumb[j], shot[j], audio[j], artifact[j], tr[j], failedAt[j],
    startedAt[j], invoked[j], ret[j], answer[j], posted[j]>>

\* C24: a step of one job's run leaves the record and the run of every
\* other job as they were, and of what the service holds besides it can
\* change the cache only; and a job is in `error` exactly when one of its
\* own calls was rejected, `completed` exactly when its own run ended without
\* one, whatever the other jobs did.
C24_JobIsolation ==
  [][\A j \in Ids :
       /\ (Run(j)' # Run(j) \/ Record(j)' # Record(j)) =>
            /\ \A i \in Ids \ {j} : Run(i)' = Run(i) /\ Record(i)' = Record(i)
            /\ j \in Known => /\ DOMAIN results' = DOMAIN results
                               /\ query' = query
                               /\ submitReply' = submitReply
       /\ (Status(j) = "error")' <=> (failedAt[j] # "none")'
       /\ (Status(j) = "completed")' <=> (pc[j] = "done" /\ failedAt[j] = "none")']_vars

\* Two jobs ran interleaved to different ends: one is completed after a
\* classification post while the other is in `error` with its thumbnail task
\* still on its way.
C24_Witness ==
  \E i, j \in Known :
    /\ results[j].status = "completed"
    /\ invoked[j]
    /\ results[i].status = "error"
    /\ thumb[i] \notin {"none", "settled"}
    /\ results[j].screenshotPath # results[i].screenshotPath

\* The returns, in order, of the calls that reached cache.set under
\* fingerprint h.
StoresUnder(h) ==
  {k \in 1..Len(hist) :
     answer[hist[k]] \in {"label", "nolabel"} /\ Hash[tr[hist[k]]] = h}

\* The cache holds, under each fingerprint a call stored under, the value of
\* the call that stored last, and nothing else.
LastWriteWins ==
  /\ \A h \in DOMAIN cache :
       StoresUnder(h) # {} /\ cache[h] = ret[hist[Last(StoresUnder(h))]]
  /\ \A k \in 1..Len(hist) :
       answer[hist[k]] \in {"label", "nolabel"} => Hash[tr[hist[k]]] \in DOMAIN cache

\* The post of job j settles in this step.
Settles(j) == pc[j] = "classify" /\ pc'[j] = "done"

\* C25: whatever the interleaving of the calls, a call whose post settles
\* returns the value computed from the reply and, unless it failed, stores
\* it under its fingerprint without touching another entry; a call that
\* finds its fingerprint returns the value it read; nothing else changes the
\* cache; so each entry is the value of the call that stored last under it.
C25_LastWriteWins ==
  /\ []LastWriteWins
  /\ [][/\ \A j \in Ids :
            /\ Settles(j) =>
                 LET h == Hash[tr[j]]
                 IN IF answer'[j] = "failed"
                    THEN ret'[j] = ProbNeutral /\ cache' = cache
                    ELSE /\ ret'[j] \in {ProbAI, ProbHuman}
                         /\ cache' = [g \in DOMAIN cache \cup {h} |->
                                        IF g = h THEN ret'[j] ELSE cache[g]]
            /\ (Called(j) /\ Lookup(tr'[j], cache) = "hit") =>
                 ret'[j] = cache[Hash[tr'[j]]]
         /\ cache' # cache => \E i \in Ids : Settles(i)]_vars

\* Two jobs with texts of one fingerprint both missed the cache and both
\* posted: the second call began before the first returned.  The replies
\* differed, and the entry is the value of the call that returned last.
C25_Witness ==
  \E i, j \in Ids :
    /\ i # j
    /\ invoked[i] /\ invoked[j]
    /\ pc[i] = "done" /\ pc[j] = "done"
    /\ Hash[tr[i]] = Hash[tr[j]]
    /\ answer[i] = "label" /\ answer[j] = "label"
    /\ ret[i] = ProbAI /\ ret[j] = ProbHuman
    /\ hist = <<i, j>>
    /\ startedAt[i] = 0 /\ startedAt[j] = 0
    /\ cache[Hash[tr[j]]] = ProbHuman

\* C26: every value in the cache is 0.8 or 0.2; no step removes an entry; a
\* call whose post failed or timed out, and a call bypassed for a short text,
\* returns 0.5 and leaves the cache unchanged.
C26_FallbackNeverCached ==
  /\ [](\A h \in DOMAIN cache : cache[h] \in {ProbAI, ProbHuman})
  /\ [][/\ DOMAIN cache \subseteq DOMAIN cache'
         /\ \A j \in Ids :
              /\ (Settles(j) /\ answer'[j] = "failed") =>
                   ret'[j] = ProbNeutral /\ cache' = cache
              /\ (Called(j) /\ Lookup(tr'[j], cache) = "bypass") =>
                   ret'[j] = ProbNeutral /\ cache' = cache]_vars

\* A call whose post failed has returned 0.5 and its fingerprint is not in
\* the cache, which holds the result another call stored.
C26_Witness ==
  \E i, j \in Ids :
    /\ answer[j] = "failed"
    /\ ret[j] = ProbNeutral
    /\ Hash[tr[j]] \notin DOMAIN cache
    /\ answer[i] = "label"
    /\ Hash[tr[i]] \in DOMAIN cache
    /\ cache[Hash[tr[i]]] = ret[i]

====
